---- MODULE Spec2Model ----
(***************************************************************************)
(* A model of larray_eurostat/sdmx.py: the Fetcher                         *)
(* (get_eurostat_sdmx_variable), the Labeler (describe_eurostat_data) and  *)
(* the Facade (get_eurostat_sdmx).                                         *)
(*                                                                         *)
(* Arrays are objects on a heap (an LArray is a Python object): `heap` is  *)
(* the sequence of the LArray objects allocated so far, an object's id is  *)
(* its index.  An LArray is [axes, data]; an axis is [name, labels]; data  *)
(* is [shape, cells], the cells in row-major order.                        *)
(*                                                                         *)
(* The codelist table (metadata.codelist, a pandas DataFrame indexed by    *)
(* (codelist name, code)) is modelled by its 'name' column: a function     *)
(* from <<key, code>> pairs to description strings.                        *)
(***************************************************************************)
EXTENDS Naturals, Sequences, FiniteSets, TLC

VARIABLES
    heap,      \* the LArray objects allocated so far
    md,        \* Labeler runs: the codelist table handed to the Labeler
    arg0,      \* Labeler runs: the input array as it was before the first call
    md0,       \* Labeler runs: the codelist table as it was before the first call
    calls,     \* Labeler runs: one record per completed describe_eurostat_data call
    server,    \* the SDMX collaborator (estat): what it holds and how it delivers it
    req,       \* the call in progress: [op, var_id, key, metadata]
    pc,        \* the statement of get_eurostat_sdmx_variable / get_eurostat_sdmx to run next
    log,       \* the requests the call in progress has issued to the collaborator
    loc,       \* the locals of the call in progress
    outcome,   \* what the call gave its caller: an exception or a value
    fault,     \* the error the collaborator raised during the call in progress
    prev       \* the completed call before the one in progress

vars == <<heap, md, arg0, md0, calls, server, req, pc, log, loc, outcome, fault, prev>>

labelerVars == <<md, arg0, md0, calls>>
fetchVars == <<server, req, pc, log, loc, outcome, fault, prev>>

(***************************************************************************)
(* Bounds of the model                                                     *)
(***************************************************************************)
MaxLabels == 2     \* labels per axis of an input array
MaxAxes == 2       \* axes of an input array

(***************************************************************************)
(* Helpers on sequences                                                    *)
(***************************************************************************)
Range(s) == {s[i] : i \in 1..Len(s)}

InjSeqs(S, n) ==
    UNION {{s \in [1..k -> S] : \A i, j \in 1..k : i # j => s[i] # s[j]} : k \in 0..n}

RECURSIVE Prod(_)
Prod(s) == IF s = <<>> THEN 1 ELSE Head(s) * Prod(Tail(s))

(***************************************************************************)
(* larray collaborator: Axis, LArray construction, with_axes               *)
(***************************************************************************)
Axis(name, labels) == [name |-> name, labels |-> labels]

Shape(axes) == [i \in 1..Len(axes) |-> Len(axes[i].labels)]

\* a bug that with_axes could have: set the axes on the receiver itself
with_axes_inplace(h, self, axes) ==
    [heap |-> [h EXCEPT ![self].axes = axes], ret |-> self, exc |-> "None"]

\* arr.with_axes(axes) is LArray(arr.data, axes): a new object on the same
\* data; the LArray constructor raises ValueError when the lengths of the
\* axes do not match the shape of the data.
with_axes(h, self, axes) ==
    IF Shape(axes) = h[self].data.shape
    THEN [heap |-> Append(h, [axes |-> axes, data |-> h[self].data]),
          ret |-> Len(h) + 1, exc |-> "None"]
    ELSE [heap |-> h, ret |-> 0, exc |-> "ValueError"]

(***************************************************************************)
(* describe_eurostat_data                                                  *)
(***************************************************************************)
\* `k in md['name']`: the series has a row whose first index level is k
HasEntry(m, k) == \E r \in DOMAIN m : r[1] = k

\* md['name'][k]: the rows of codelist k, indexed by code
Entry(m, k) == [c \in {r[2] : r \in {q \in DOMAIN m : q[1] = k}} |-> m[<<k, c>>]]

\* a bug Format could have: the description alone
Format_desc_only(l, d) == d

\* "{}: {}".format(l, d)
Format(l, d) == l \o ": " \o d

\* 'CL_{}'.format(name)
CL(name) == "CL_" \o name

\* ["{}: {}".format(l, md_i[l]) for l in labels if l in md_i]
RECURSIVE Described(_, _)
Described(md_i, labels) ==
    IF labels = <<>> THEN <<>>
    ELSE LET l == Head(labels)
             rest == Described(md_i, Tail(labels))
         IN IF l \in DOMAIN md_i THEN <<Format(l, md_i[l])>> \o rest ELSE rest

\* a bug gettext could have: the bare-name entry is looked up first
gettext_bare_first(m, name, labels) ==
    IF HasEntry(m, name) THEN Described(Entry(m, name), labels)
    ELSE IF HasEntry(m, CL(name)) THEN Described(Entry(m, CL(name)), labels)
    ELSE labels

\* a bug gettext could have: an axis without an entry gets no labels
gettext_no_else(m, name, labels) ==
    IF HasEntry(m, CL(name)) THEN Described(Entry(m, CL(name)), labels)
    ELSE IF HasEntry(m, name) THEN Described(Entry(m, name), labels)
    ELSE <<>>

\* a bug gettext could have: a code without a description is kept as it is
gettext_keep(m, name, labels) ==
    LET k == IF HasEntry(m, CL(name)) THEN CL(name) ELSE name
    IN IF HasEntry(m, k)
       THEN [j \in 1..Len(labels) |->
                IF <<k, labels[j]>> \in DOMAIN m
                THEN Format(labels[j], m[<<k, labels[j]>>]) ELSE labels[j]]
       ELSE labels

gettext(m, name, labels) ==
    IF HasEntry(m, CL(name)) THEN Described(Entry(m, CL(name)), labels)
    ELSE IF HasEntry(m, name) THEN Described(Entry(m, name), labels)
    ELSE labels

\* en_axes = [Axis(name, gettext(metadata, name, axis.labels)) for name, axis in ...]
en_axes(arr, m) ==
    [i \in 1..Len(arr.axes) |->
        Axis(arr.axes[i].name, gettext(m, arr.axes[i].name, arr.axes[i].labels))]

\* describe_eurostat_data(arr, metadata): arr is the id of the array object
describe_eurostat_data(h, arr, m) == with_axes(h, arr, en_axes(h[arr], m))

(***************************************************************************)
(* The SDMX collaborator (estat = Request('ESTAT')) as a stub              *)
(***************************************************************************)
NoKey == [none |-> TRUE, dict |-> <<>>]                  \* key=None
Dict(d) == [none |-> FALSE, dict |-> d]                  \* key={...}

NoBody == [kind |-> "none"]

\* the series of a data response that a key selects: a key maps dimension
\* names to the set of the values allowed ('+' separates them on the wire)
Selects(key, s) == \A d \in DOMAIN key : s[d] \in key[d]

\* the collaborator validates a key against the data structure definition
ValidKey(srv, key) ==
    \A d \in DOMAIN key : d \in DOMAIN srv.codes /\ key[d] \subseteq srv.codes[d]

\* estat.get / estat.datastructure: the response to request rq; down is a
\* network failure during the request
StubGet(srv, rq, down) ==
    IF down THEN [exc |-> "ConnectionError", body |-> NoBody]
    ELSE IF rq.type = "dataflow" THEN
        IF rq.id = srv.var_id
        THEN [exc |-> "None", body |-> [kind |-> "dataflow", name |-> srv.name]]
        ELSE [exc |-> "HTTPError", body |-> NoBody]
    ELSE IF rq.type = "datastructure" THEN
        IF rq.id = "DSD_" \o srv.var_id
        THEN [exc |-> "None", body |-> [kind |-> "datastructure", codelist |-> srv.codelist]]
        ELSE [exc |-> "HTTPError", body |-> NoBody]
    ELSE IF rq.id # srv.var_id THEN [exc |-> "HTTPError", body |-> NoBody]
    ELSE IF ~ValidKey(srv, rq.key) THEN [exc |-> "ValueError", body |-> NoBody]
    ELSE [exc |-> "None",
          body |-> [kind |-> "data", dims |-> srv.dims, periods |-> srv.periods,
                    series |-> SelectSeq(srv.series, LAMBDA s : Selects(rq.key, s))]]

(***************************************************************************)
(* The tabular collaborator: data_resp.write(...) and df.T                 *)
(***************************************************************************)
NaN == <<>>

\* the observation of series s at period t (every series is observed at
\* every period the response carries)
Obs(s, t) == <<s, t>>

\* data_resp.write(s for s in data.series): one column per series, labelled
\* by the series key (one level per dimension), one row per period
write(body) ==
    [index_name |-> "TIME_PERIOD",
     index |-> body.periods,
     columns_names |-> body.dims,
     columns |-> [j \in 1..Len(body.series) |->
                    [k \in 1..Len(body.dims) |-> body.series[j][body.dims[k]]]],
     at |-> [ij \in (1..Len(body.periods)) \X (1..Len(body.series)) |->
                Obs(body.series[ij[2]], body.periods[ij[1]])]]

\* df.T
T(df) ==
    [index_names |-> df.columns_names,
     index |-> df.columns,
     columns_name |-> df.index_name,
     columns |-> df.index,
     at |-> [ij \in (1..Len(df.columns)) \X (1..Len(df.index)) |-> df.at[<<ij[2], ij[1]>>]]]

(***************************************************************************)
(* larray collaborator: df_aslarray                                        *)
(***************************************************************************)
\* the values of s, each once, in the order of their first appearance
RECURSIVE Unique(_)
Unique(s) ==
    IF s = <<>> THEN <<>>
    ELSE LET u == Unique(SubSeq(s, 1, Len(s) - 1))
         IN IF s[Len(s)] \in Range(u) THEN u ELSE Append(u, s[Len(s)])

\* sorted(s) for a sequence of numbers
RECURSIVE Sorted(_)
Sorted(s) ==
    IF s = <<>> THEN <<>>
    ELSE LET m == CHOOSE x \in Range(s) : \A y \in Range(s) : x <= y
             i == CHOOSE i \in 1..Len(s) : s[i] = m
         IN <<m>> \o Sorted(SubSeq(s, 1, i - 1) \o SubSeq(s, i + 1, Len(s)))

\* the position of x in s
Pos(s, x) == CHOOSE i \in 1..Len(s) : s[i] = x

\* the 1-based coordinates of the n-th cell (from 0) of a row-major array
RECURSIVE Unravel(_, _)
Unravel(n, shape) ==
    IF shape = <<>> THEN <<>>
    ELSE LET rest == Prod(Tail(shape))
         IN <<(n \div rest) + 1>> \o Unravel(n % rest, Tail(shape))

\* alphabetical order of the axis names of the model
NameRank == ("GEO" :> 1) @@ ("SEX" :> 2) @@ ("TIME_PERIOD" :> 3) @@ ("time" :> 4)

RECURSIVE SortedByName(_)
SortedByName(axes) ==
    IF axes = <<>> THEN <<>>
    ELSE LET i == CHOOSE i \in 1..Len(axes) :
                     \A j \in 1..Len(axes) : NameRank[axes[i].name] <= NameRank[axes[j].name]
         IN <<axes[i]>> \o SortedByName(SubSeq(axes, 1, i - 1) \o SubSeq(axes, i + 1, Len(axes)))

\* the LArray on axes `axes` of the table df (rows: one per combination of
\* index labels; columns: the last axis): the cartesian product of the axis
\* labels, NaN where the table has no row for a combination
Reindexed(df, axes, last) ==
    LET shape == Shape(axes)
        label(c, name) == LET i == CHOOSE i \in 1..Len(axes) : axes[i].name = name
                          IN axes[i].labels[c[i]]
        cell(c) == LET row == [k \in 1..Len(df.index_names) |-> label(c, df.index_names[k])]
                       col == label(c, last)
                   IN IF row \in Range(df.index)
                      THEN df.at[<<Pos(df.index, row), Pos(df.columns, col)>>]
                      ELSE NaN
    IN [axes |-> axes,
        data |-> [shape |-> shape,
                  cells |-> [n \in 1..Prod(shape) |-> cell(Unravel(n - 1, shape))]]]

\* the axes df_aslarray builds: one per index level, in the order of the
\* levels, its labels in the order of their first appearance (sort_rows is
\* False), then one for the columns, sorted when sort_columns is set
TableAxes(df, sort_columns, last) ==
    [k \in 1..Len(df.index_names) |->
        Axis(df.index_names[k], Unique([i \in 1..Len(df.index) |-> df.index[i][k]]))]
    \o <<Axis(last, IF sort_columns THEN Sorted(df.columns) ELSE df.columns)>>

\* the conversion C4 describes: the axes themselves are sorted by name
df_aslarray_sorted_axes(h, df, sort_columns, last) ==
    LET a == Reindexed(df, SortedByName(TableAxes(df, sort_columns, last)), last)
    IN [heap |-> Append(h, a), ret |-> Len(h) + 1]

\* df_aslarray(df, sort_columns=...): the index levels of df become the axes,
\* in the order of the levels, and the columns the last axis; sort_columns
\* sorts the column labels, never the axes.  last is the name the larray
\* release in use gives the axis of the columns ("time" in the releases that
\* hard-code it, the name of the columns, "TIME_PERIOD", in the others).
df_aslarray(h, df, sort_columns, last) ==
    LET a == Reindexed(df, TableAxes(df, sort_columns, last), last)
    IN [heap |-> Append(h, a), ret |-> Len(h) + 1]

(***************************************************************************)
(* get_eurostat_sdmx_variable and get_eurostat_sdmx, statement by          *)
(* statement                                                               *)
(***************************************************************************)
\* a bug the Facade could have: the key is not handed to the Fetcher
facade_key_dropped(key) == NoKey

\* get_eurostat_sdmx: the key argument of its get_eurostat_sdmx_variable call
facade_key(key) == IF key.none THEN NoKey ELSE key

\* get_eurostat_sdmx_variable: `if key is None: key = {}`
fetcher_key(key) == IF key.none THEN <<>> ELSE key.dict

\* a bug the Fetcher could have: the data is requested before the structure
step_after_data_first(p) ==
    CASE p = "dataflow" -> "title"
      [] p = "title" -> "data"
      [] p = "data" -> "dsd"
      [] p = "dsd" -> "convert"
      [] p = "convert" -> "return"

\* the statement that follows statement p of get_eurostat_sdmx_variable
step_after(p) ==
    CASE p = "dataflow" -> "title"
      [] p = "title" -> "dsd"
      [] p = "dsd" -> "data"
      [] p = "data" -> "convert"
      [] p = "convert" -> "return"

NoLocals == [key |-> <<>>, dataflow |-> NoBody, title |-> "", metadata |-> NoBody,
             data_resp |-> NoBody, arr |-> 0]

NoOutcome == [kind |-> "none", exc |-> "None", title |-> "", codelist |-> <<>>, arr |-> 0]

Raised(e) == [kind |-> "raise", exc |-> e, title |-> "", codelist |-> <<>>, arr |-> 0]

\* a bug the Fetcher could have: a collaborator error is caught and replaced
on_error_wrapped(e) == Raised("LookupError")

\* no statement of either function catches an exception: it reaches the caller
on_error(e) == Raised(e)

\* a bug the Facade could have: the flag is read the wrong way round
facade_result_swapped(h, metadata, data, df_metadata) ==
    IF ~metadata THEN describe_eurostat_data(h, data, df_metadata)
    ELSE [heap |-> h, ret |-> data, exc |-> "None"]

\* get_eurostat_sdmx: `if metadata: return describe_eurostat_data(...) else: return data`
facade_result(h, metadata, data, df_metadata) ==
    IF metadata THEN describe_eurostat_data(h, data, df_metadata)
    ELSE [heap |-> h, ret |-> data, exc |-> "None"]

\* the environment: what the collaborator holds
VarIds == {"ilc_peps01", "nope"}

Keys == {NoKey, Dict(<<>>), Dict("SEX" :> {"F"}), Dict("SEX" :> {"X"})}

S(g, x) == [GEO |-> g, SEX |-> x]

Servers ==
    [var_id : {"ilc_peps01"},
     name : {"en" :> "People at risk of poverty", "fr" :> "Personnes en risque de pauvrete"},
     codes : {[GEO |-> {"BE", "EU28"}, SEX |-> {"F", "M"}]},
     codelist : {(<<"CL_GEO", "BE">> :> "Belgium") @@ (<<"CL_GEO", "EU28">> :> "European Union")
                    @@ (<<"CL_SEX", "F">> :> "Females") @@ (<<"CL_SEX", "M">> :> "Males"),
                 (<<"CL_GEO", "BE">> :> "Belgium") @@ (<<"CL_GEO", "EU28">> :> "European Union")
                    @@ (<<"CL_SEX", "F">> :> "Females")},
     dims : {<<"GEO", "SEX">>, <<"SEX", "GEO">>},
     series : {<<S("BE", "M"), S("BE", "F"), S("EU28", "M"), S("EU28", "F")>>,
               <<S("EU28", "F"), S("BE", "F"), S("BE", "M")>>},
     periods : {<<2015, 2016>>, <<2016, 2015>>},
     time_axis : {"time", "TIME_PERIOD"}]

Idle ==
    /\ req = [op |-> "none", var_id |-> "", key |-> NoKey, metadata |-> FALSE]
    /\ pc = "idle"
    /\ log = <<>>
    /\ loc = NoLocals
    /\ outcome = NoOutcome
    /\ fault = "None"
    /\ prev = [done |-> FALSE]

Init ==
    /\ heap = <<>>
    /\ md = <<>> /\ arg0 = <<>> /\ md0 = <<>> /\ calls = <<>>
    /\ server \in Servers
    /\ Idle

\* the caller calls get_eurostat_sdmx_variable(var_id, key) or
\* get_eurostat_sdmx(var_id, metadata, key); the Facade calls the Fetcher at once
Enter(op, var_id, key, metadata) ==
    /\ req' = [op |-> op, var_id |-> var_id, key |-> key, metadata |-> metadata]
    /\ loc' = [NoLocals EXCEPT !.key =
                 fetcher_key(IF op = "get_eurostat_sdmx" THEN facade_key(key) ELSE key)]
    /\ pc' = "dataflow"
    /\ log' = <<>>
    /\ outcome' = NoOutcome
    /\ fault' = "None"

Call ==
    /\ pc = "idle"
    /\ \E op \in {"get_eurostat_sdmx_variable", "get_eurostat_sdmx"},
          var_id \in VarIds, key \in Keys, metadata \in BOOLEAN :
        /\ op = "get_eurostat_sdmx_variable" => ~metadata
        /\ Enter(op, var_id, key, metadata)
    /\ UNCHANGED <<heap, labelerVars, server, prev>>

\* after a completed get_eurostat_sdmx_variable(var_id, key), the caller
\* calls get_eurostat_sdmx with the same var_id and key
CallFacadeAfter ==
    /\ pc = "done"
    /\ ~prev.done
    /\ req.op = "get_eurostat_sdmx_variable"
    /\ prev' = [done |-> TRUE, req |-> req, log |-> log, outcome |-> outcome, fault |-> fault]
    /\ \E metadata \in BOOLEAN : Enter("get_eurostat_sdmx", req.var_id, req.key, metadata)
    /\ UNCHANGED <<heap, labelerVars, server>>

\* a request to the collaborator: it is issued, and either its response is
\* stored or the collaborator's error ends the call
Request(rq, field) ==
    \E down \in BOOLEAN :
        LET r == StubGet(server, rq, down)
        IN /\ log' = Append(log, rq)
           /\ fault' = r.exc
           /\ IF r.exc = "None"
              THEN /\ loc' = [loc EXCEPT ![field] = r.body]
                   /\ pc' = step_after(pc)
                   /\ UNCHANGED outcome
              ELSE /\ outcome' = on_error(r.exc)
                   /\ pc' = "done"
                   /\ UNCHANGED loc

\* dataflow = estat.get('dataflow', var_id)
ReqDataflow ==
    /\ pc = "dataflow"
    /\ Request([type |-> "dataflow", id |-> req.var_id, key |-> <<>>], "dataflow")
    /\ UNCHANGED <<heap, labelerVars, server, req, prev>>

\* title = dataflow.msg.dataflow[var_id].name['en']
Title ==
    /\ pc = "title"
    /\ IF "en" \in DOMAIN loc.dataflow.name
       THEN /\ loc' = [loc EXCEPT !.title = loc.dataflow.name["en"]]
            /\ pc' = step_after(pc)
            /\ UNCHANGED <<outcome, fault>>
       ELSE /\ fault' = "KeyError"
            /\ outcome' = on_error("KeyError")
            /\ pc' = "done"
            /\ UNCHANGED loc
    /\ UNCHANGED <<heap, labelerVars, server, req, log, prev>>

\* metadata = estat.datastructure("DSD_{}".format(var_id)).write()
ReqDSD ==
    /\ pc = "dsd"
    /\ Request([type |-> "datastructure", id |-> "DSD_" \o req.var_id, key |-> <<>>], "metadata")
    /\ UNCHANGED <<heap, labelerVars, server, req, prev>>

\* data_resp = estat.get(resource_type='data', resource_id=var_id, key=key)
ReqData ==
    /\ pc = "data"
    /\ Request([type |-> "data", id |-> req.var_id, key |-> loc.key], "data_resp")
    /\ UNCHANGED <<heap, labelerVars, server, req, prev>>

\* df = data_resp.write(s for s in data.series); arr = df_aslarray(df.T, sort_columns=True)
Convert ==
    /\ pc = "convert"
    /\ LET r == df_aslarray(heap, T(write(loc.data_resp)), TRUE, server.time_axis)
       IN /\ heap' = r.heap
          /\ loc' = [loc EXCEPT !.arr = r.ret]
    /\ pc' = step_after(pc)
    /\ UNCHANGED <<labelerVars, server, req, log, outcome, fault, prev>>

\* return title, metadata.codelist, arr: to the caller, or to the Facade
Return ==
    /\ pc = "return"
    /\ IF req.op = "get_eurostat_sdmx_variable"
       THEN /\ outcome' = [kind |-> "triple", exc |-> "None", title |-> loc.title,
                           codelist |-> loc.metadata.codelist, arr |-> loc.arr]
            /\ pc' = "done"
       ELSE /\ pc' = "facade"
            /\ UNCHANGED outcome
    /\ UNCHANGED <<heap, labelerVars, server, req, log, loc, fault, prev>>

\* get_eurostat_sdmx, after its Fetcher call returned
FacadeReturn ==
    /\ pc = "facade"
    /\ LET r == facade_result(heap, req.metadata, loc.arr, loc.metadata.codelist)
       IN /\ heap' = r.heap
          /\ outcome' = IF r.exc = "None"
                        THEN [kind |-> "array", exc |-> "None", title |-> "",
                              codelist |-> <<>>, arr |-> r.ret]
                        ELSE on_error(r.exc)
    /\ pc' = "done"
    /\ UNCHANGED <<labelerVars, server, req, log, loc, fault, prev>>

Next ==
    \/ Call
    \/ CallFacadeAfter
    \/ ReqDataflow
    \/ Title
    \/ ReqDSD
    \/ ReqData
    \/ Convert
    \/ Return
    \/ FacadeReturn

Spec == Init /\ [][Next]_vars

(***************************************************************************)
(* Inputs of the Labeler runs                                              *)
(***************************************************************************)
AxisNames == {"GEO", "SEX"}

\* the codes an axis of an input array may carry; "F: Females" is a code that
\* has the form of a label the Labeler produces
Codes(name) == IF name = "SEX" THEN {"F", "M", "F: Females"} ELSE {"BE", "EU28"}

\* the rows a codelist table may hold, each with its description
NameColumn ==
    (<<"CL_SEX", "F">> :> "Females") @@ (<<"CL_SEX", "M">> :> "Males")
    @@ (<<"CL_SEX", "F: Females">> :> "again")
    @@ (<<"SEX", "F">> :> "female") @@ (<<"SEX", "M">> :> "male")
    @@ (<<"CL_GEO", "BE">> :> "Belgium") @@ (<<"GEO", "BE">> :> "belgium")

Codelists == {[r \in D |-> NameColumn[r]] : D \in SUBSET (DOMAIN NameColumn)}

MkArray(axes) ==
    [axes |-> axes,
     data |-> [shape |-> Shape(axes),
               cells |-> [i \in 1..Prod(Shape(axes)) |-> i]]]

AxesOver(names) ==
    {ax \in [1..Len(names) -> UNION {{Axis(n, ls) : ls \in InjSeqs(Codes(n), MaxLabels)}
                                       : n \in AxisNames}] :
        \A i \in 1..Len(names) : ax[i].name = names[i]}

InputArrays ==
    {MkArray(ax) : ax \in UNION {AxesOver(names) :
                        names \in InjSeqs(AxisNames, MaxAxes) \ {<<>>}}}

(***************************************************************************)
(* The Labeler runs: describe_eurostat_data applied once, then applied to  *)
(* its own result                                                          *)
(***************************************************************************)
InitLabeler ==
    /\ \E a \in InputArrays : heap = <<a>> /\ arg0 = a
    /\ md \in Codelists
    /\ md0 = md
    /\ calls = <<>>
    /\ server = [var_id |-> ""]
    /\ Idle

Describe(arr) ==
    LET r == describe_eurostat_data(heap, arr, md)
    IN /\ heap' = r.heap
       /\ calls' = Append(calls, [arg |-> arr, in |-> heap[arr].axes,
                                  en |-> en_axes(heap[arr], md),
                                  ret |-> r.ret, exc |-> r.exc])
       /\ UNCHANGED <<md, arg0, md0, fetchVars>>

DescribeOnce == calls = <<>> /\ Describe(1)

DescribeAgain == Len(calls) = 1 /\ calls[1].exc = "None" /\ Describe(calls[1].ret)

NextLabeler == DescribeOnce \/ DescribeAgain

SpecLabeler == InitLabeler /\ [][NextLabeler]_vars

(***************************************************************************)
(* Vocabulary of the Fetcher and Facade claims                             *)
(***************************************************************************)
\* the requests one get_eurostat_sdmx_variable(var_id, key) call issues when
\* nothing fails, in order
ExpectedRequests(r) ==
    <<[type |-> "dataflow", id |-> r.var_id, key |-> <<>>],
      [type |-> "datastructure", id |-> "DSD_" \o r.var_id, key |-> <<>>],
      [type |-> "data", id |-> r.var_id, key |-> IF r.key.none THEN <<>> ELSE r.key.dict]>>

Ascending(s) == \A i, j \in 1..Len(s) : i < j => s[i] < s[j]

FetchedAxes == heap[loc.arr].axes

(***************************************************************************)
(* C4: the array the Fetcher builds has the dimensions the                 *)
(* collaborator declares as its axis set, the axes ordered by name,        *)
(* whatever the order in which the collaborator delivers the dimensions.   *)
(***************************************************************************)
C4_SortedByName ==
    loc.arr # 0
    => /\ {FetchedAxes[i].name : i \in 1..Len(FetchedAxes)}
            = Range(server.dims) \cup {server.time_axis}
       /\ \A i, j \in 1..Len(FetchedAxes) :
            i < j => NameRank[FetchedAxes[i].name] < NameRank[FetchedAxes[j].name]

(***************************************************************************)
(* What the code does where C4 fails: the array has one axis per dimension *)
(* of the delivered series keys, in the order in which the collaborator    *)
(* delivers those dimensions, each carrying the codes delivered for it,    *)
(* followed by one axis for the time periods, whose labels are the         *)
(* delivered periods in ascending order.                                   *)
(***************************************************************************)
DeliveredOrder ==
    loc.arr # 0
    => LET d == loc.data_resp.dims
       IN /\ Len(FetchedAxes) = Len(d) + 1
          /\ \A k \in 1..Len(d) :
                /\ FetchedAxes[k].name = d[k]
                /\ Range(FetchedAxes[k].labels)
                     = {loc.data_resp.series[j][d[k]] : j \in 1..Len(loc.data_resp.series)}
          /\ FetchedAxes[Len(d) + 1].name \in {"time", "TIME_PERIOD"}
          /\ Range(FetchedAxes[Len(d) + 1].labels) = Range(loc.data_resp.periods)
          /\ Ascending(FetchedAxes[Len(d) + 1].labels)

UnsortedDelivery ==
    /\ pc = "done"
    /\ outcome.kind = "triple"
    /\ server.dims = <<"SEX", "GEO">>
    /\ server.periods = <<2016, 2015>>
    /\ Len(heap[outcome.arr].axes) = 3

(***************************************************************************)
(* C5: the Facade is a composition of the two other operations.  Called    *)
(* with the var_id and key of a completed Fetcher call, and the            *)
(* collaborator reachable in both calls, it issues the very requests that  *)
(* Fetcher call issued; where the Fetcher raised, it raises the same       *)
(* error; with metadata false it returns an array equal (axes and data) to *)
(* the Fetcher's array; with metadata true its result is                   *)
(* describe_eurostat_data applied to the Fetcher's array and codelist.     *)
(***************************************************************************)
C5_Composition ==
    pc = "done" /\ prev.done /\ fault # "ConnectionError" /\ prev.fault # "ConnectionError"
    => /\ log = prev.log
       /\ prev.outcome.kind = "raise" => outcome = prev.outcome
       /\ prev.outcome.kind = "triple" /\ ~req.metadata
            => outcome.kind = "array" /\ heap[outcome.arr] = heap[prev.outcome.arr]
       /\ prev.outcome.kind = "triple" /\ req.metadata
            => LET r == describe_eurostat_data(heap, prev.outcome.arr, prev.outcome.codelist)
               IN /\ outcome.exc = r.exc
                  /\ r.exc = "None"
                       => outcome.kind = "array" /\ heap[outcome.arr] = r.heap[r.ret]

C5_Witness ==
    /\ pc = "done"
    /\ prev.done
    /\ prev.outcome.kind = "triple"
    /\ req.metadata
    /\ req.key = Dict("SEX" :> {"F"})
    /\ outcome.kind = "array"
    /\ Len(log) = 3

(***************************************************************************)
(* C6: the Fetcher issues the dataflow request, extracts the title, issues *)
(* the "DSD_" + var_id request, issues the data request and converts the   *)
(* table, in that order.  An error at any step ends the call: the requests *)
(* issued are those up to the failing step, each once; the table is never  *)
(* converted; the caller gets no title, codelist or array; and the error   *)
(* the caller gets is the collaborator's.                                  *)
(***************************************************************************)
C6_AbortOnFailure ==
    /\ Len(log) <= 3
    /\ \A i \in 1..Len(log) : log[i] = ExpectedRequests(req)[i]
    /\ pc = "dataflow" => log = <<>>
    /\ pc = "title" => Len(log) = 1 /\ loc.title = ""
    /\ pc = "dsd" => Len(log) = 1 /\ loc.title # ""
    /\ pc = "data" => Len(log) = 2
    /\ pc = "convert" => Len(log) = 3 /\ loc.arr = 0
    /\ loc.arr # 0 => Len(log) = 3 /\ fault = "None"
    /\ fault # "None"
         => /\ pc = "done"
            /\ outcome = [kind |-> "raise", exc |-> fault, title |-> "",
                          codelist |-> <<>>, arr |-> 0]
            /\ fault = "KeyError" => Len(log) = 1
            /\ fault = "ValueError" => Len(log) = 3
    /\ pc = "done" /\ fault = "None" /\ req.op = "get_eurostat_sdmx_variable"
         => outcome.kind = "triple" /\ Len(log) = 3

C6_Witness ==
    /\ pc = "done"
    /\ req.op = "get_eurostat_sdmx_variable"
    /\ fault = "ValueError"
    /\ outcome.exc = "ValueError"
    /\ Len(log) = 3
    /\ heap = <<>>

(***************************************************************************)
(* Vocabulary of the Labeler claims                                        *)
(***************************************************************************)
\* the labels of `labels` that codelist k of md describes, in order, each
\* rendered "<code>: <description>"
Rendered(k, labels) ==
    LET kept == SelectSeq(labels, LAMBDA l : <<k, l>> \in DOMAIN md)
    IN [j \in 1..Len(kept) |-> kept[j] \o ": " \o md[<<k, kept[j]>>]]

\* codelist k of md is the entry the spec selects for an axis named n:
\* "CL_" + n when it exists, else the bare name
Selected(k, n) ==
    \/ k = "CL_" \o n /\ HasEntry(md, k)
    \/ k = n /\ HasEntry(md, k) /\ ~HasEntry(md, "CL_" \o n)

SomeEntry(n) == HasEntry(md, "CL_" \o n) \/ HasEntry(md, n)

\* codelist k describes every label of the axis
Covers(k, axis) == \A l \in Range(axis.labels) : <<k, l>> \in DOMAIN md

FullyCovered(axis) == \E k \in {"CL_" \o axis.name, axis.name} :
                          Selected(k, axis.name) /\ Covers(k, axis)

PartlyCovered(axis) == \E k \in {"CL_" \o axis.name, axis.name} :
                          Selected(k, axis.name) /\ ~Covers(k, axis)

Returned(c) == c.exc = "None"

(***************************************************************************)
(* C1 (as stated): with a codelist that has an entry for every axis, the   *)
(* call returns an array whose every axis carries one "<code>:             *)
(* <description>" string per original code, in the original order.         *)
(***************************************************************************)
C1_AsStated ==
    Len(calls) >= 1 /\ (\A i \in 1..Len(arg0.axes) : SomeEntry(arg0.axes[i].name))
    => /\ Returned(calls[1])
       /\ \A i \in 1..Len(arg0.axes) :
            LET a == arg0.axes[i]
                o == heap[calls[1].ret].axes[i]
            IN /\ Len(o.labels) = Len(a.labels)
               /\ \A j \in 1..Len(a.labels) :
                    \E k \in {"CL_" \o a.name, a.name} :
                        /\ <<k, a.labels[j]>> \in DOMAIN md
                        /\ o.labels[j] = a.labels[j] \o ": " \o md[<<k, a.labels[j]>>]

(***************************************************************************)
(* C1 (amended): when for every axis the selected entry ("CL_" + name if   *)
(* present, else the bare name) describes every code of the axis, the call *)
(* returns an array whose every axis keeps its name and carries exactly    *)
(* the "<code>: <description>" strings of its codes, in the original       *)
(* order, the descriptions taken from the selected entry.                  *)
(***************************************************************************)
C1_FullCoverage ==
    Len(calls) >= 1 /\ (\A i \in 1..Len(arg0.axes) : FullyCovered(arg0.axes[i]))
    => /\ Returned(calls[1])
       /\ Len(heap[calls[1].ret].axes) = Len(arg0.axes)
       /\ \A i \in 1..Len(arg0.axes) :
            LET a == arg0.axes[i]
                o == heap[calls[1].ret].axes[i]
            IN /\ o.name = a.name
               /\ \E k \in {"CL_" \o a.name, a.name} :
                    /\ Selected(k, a.name)
                    /\ o.labels = [j \in 1..Len(a.labels) |->
                                     a.labels[j] \o ": " \o md[<<k, a.labels[j]>>]]

C1_Witness ==
    /\ Len(calls) = 1
    /\ Len(arg0.axes) = 2
    /\ \A i \in 1..2 : FullyCovered(arg0.axes[i])
    /\ Len(arg0.axes[1].labels) = 2
    /\ Returned(calls[1])

(***************************************************************************)
(* C2 (as stated): for every array and codelist the call returns an array  *)
(* with the same axes, in the same order, with the same names, and every   *)
(* output axis has as many labels as the input axis.                       *)
(***************************************************************************)
C2_SameShape ==
    Len(calls) >= 1
    => /\ Returned(calls[1])
       /\ Len(heap[calls[1].ret].axes) = Len(arg0.axes)
       /\ \A i \in 1..Len(arg0.axes) :
            /\ heap[calls[1].ret].axes[i].name = arg0.axes[i].name
            /\ Len(heap[calls[1].ret].axes[i].labels) = Len(arg0.axes[i].labels)

(***************************************************************************)
(* C3: an axis for which the codelist has neither a "CL_" + name entry nor *)
(* a bare-name entry keeps its codes: the axis the call builds for it, and *)
(* the axis of the returned array, are the input axis, whatever the        *)
(* codelist holds for the other axes.                                      *)
(***************************************************************************)
C3_Untouched ==
    \A n \in 1..Len(calls) :
        \A i \in 1..Len(calls[n].in) :
            ~SomeEntry(calls[n].in[i].name)
            => /\ calls[n].en[i] = calls[n].in[i]
               /\ Returned(calls[n]) => heap[calls[n].ret].axes[i] = calls[n].in[i]

C3_Witness ==
    /\ Len(calls) = 1
    /\ Returned(calls[1])
    /\ Len(arg0.axes) = 2
    /\ ~SomeEntry(arg0.axes[1].name)
    /\ Len(arg0.axes[1].labels) = 2
    /\ SomeEntry(arg0.axes[2].name)
    /\ Len(arg0.axes[2].labels) = 2

(***************************************************************************)
(* C7: the call mutates neither argument: afterwards the input array (its  *)
(* axes, their labels, its data) and the codelist table are what they were *)
(* before, and a returned array is another object than the input array.    *)
(***************************************************************************)
C7_NoMutation ==
    /\ heap[1] = arg0
    /\ md = md0
    /\ \A n \in 1..Len(calls) :
        /\ heap[calls[n].arg].axes = calls[n].in
        /\ Returned(calls[n]) => calls[n].ret # calls[n].arg

C7_Witness ==
    /\ Len(calls) = 1
    /\ Returned(calls[1])
    /\ \E i \in 1..Len(arg0.axes) :
        ~SomeEntry(arg0.axes[i].name) /\ arg0.axes[i].labels # <<>>
    /\ \E i \in 1..Len(arg0.axes) :
        SomeEntry(arg0.axes[i].name) /\ arg0.axes[i].labels # <<>>

(***************************************************************************)
(* C8 (as stated): for an axis whose entry describes every one of its      *)
(* codes, the label list built by a second application with the same       *)
(* codelist is the label list built by the first.                          *)
(***************************************************************************)
C8_Idempotent ==
    Len(calls) = 2
    => \A i \in 1..Len(arg0.axes) :
          FullyCovered(arg0.axes[i]) => calls[2].en[i].labels = calls[1].en[i].labels

(***************************************************************************)
(* C8 (amended): the second application reads each first-pass label        *)
(* "<code>: <description>" as a code.  For an axis whose selected entry    *)
(* describes every one of its codes, the label list the second application *)
(* builds holds, in order, only the first-pass labels that are themselves  *)
(* codes of that entry, rendered once more; it equals the first-pass list  *)
(* exactly when the axis has no labels.                                    *)
(***************************************************************************)
C8_SecondPass ==
    Len(calls) = 2
    => \A i \in 1..Len(arg0.axes) :
          FullyCovered(arg0.axes[i])
          => /\ \E k \in {"CL_" \o arg0.axes[i].name, arg0.axes[i].name} :
                  /\ Selected(k, arg0.axes[i].name)
                  /\ calls[2].en[i].labels = Rendered(k, calls[1].en[i].labels)
             /\ (calls[2].en[i].labels = calls[1].en[i].labels
                    <=> arg0.axes[i].labels = <<>>)

C8_Witness ==
    /\ Len(calls) = 2
    /\ \E i \in 1..Len(arg0.axes) :
        /\ FullyCovered(arg0.axes[i])
        /\ Len(arg0.axes[i].labels) = 2
        /\ Len(calls[2].en[i].labels) = 1

(***************************************************************************)
(* C9: the "CL_" + name entry takes precedence: when it exists the labels  *)
(* and the drop decisions come from it alone; the bare-name entry is used  *)
(* exactly when no "CL_" entry exists.                                     *)
(***************************************************************************)
C9_Precedence ==
    Len(calls) >= 1
    => \A i \in 1..Len(arg0.axes) :
          LET a == arg0.axes[i]
          IN /\ HasEntry(md, "CL_" \o a.name)
                  => calls[1].en[i].labels = Rendered("CL_" \o a.name, a.labels)
             /\ ~HasEntry(md, "CL_" \o a.name) /\ HasEntry(md, a.name)
                  => calls[1].en[i].labels = Rendered(a.name, a.labels)

C9_Witness ==
    /\ Len(calls) = 1
    /\ \E i \in 1..Len(arg0.axes) :
        LET a == arg0.axes[i]
        IN /\ HasEntry(md, "CL_" \o a.name)
           /\ HasEntry(md, a.name)
           /\ \E l \in Range(a.labels) :
                <<a.name, l>> \in DOMAIN md /\ <<"CL_" \o a.name, l>> \notin DOMAIN md
           /\ \E l \in Range(a.labels) : <<"CL_" \o a.name, l>> \in DOMAIN md

(***************************************************************************)
(* C10 (as stated): for an axis whose entry lacks a description for some   *)
(* of its codes, the call raises no error and returns an array in which    *)
(* that axis carries exactly the in-order "<code>: <description>" strings  *)
(* of the described codes.                                                 *)
(***************************************************************************)
C10_SilentDrop ==
    Len(calls) >= 1
    => \A i \in 1..Len(arg0.axes) :
          PartlyCovered(arg0.axes[i])
          => /\ Returned(calls[1])
             /\ \E k \in {"CL_" \o arg0.axes[i].name, arg0.axes[i].name} :
                  /\ Selected(k, arg0.axes[i].name)
                  /\ heap[calls[1].ret].axes[i].labels = Rendered(k, arg0.axes[i].labels)

====
